---- MODULE Spec2Model ----
(***************************************************************************)
(* The Formation provider/service (src/src/services/Formation/Formation.js) *)
(* as a state machine: the provider's closure variables, the provider      *)
(* methods, the service functions returned by $get, and the host's         *)
(* $compileProvider the service registers with.                            *)
(*                                                                         *)
(* Strings are sequences of one-character strings, so that String(),       *)
(* capitalize() and lowercase() are computed character by character.       *)
(***************************************************************************)
EXTENDS Integers, Sequences, FiniteSets, TLC

VARIABLES prefix, showErrorsOnStr, counter, heap, host, got, ids, lastSet, lastOp

vars == <<prefix, showErrorsOnStr, counter, heap, host, got, ids, lastSet, lastOp>>

\* prefix, showErrorsOnStr, counter: the provider's variables of those names.
\* heap[REG]: the registeredComponents array.
\* host: the registrations $compileProvider accepted, in order.
\* got: $get has run, so the service functions exist.
\* ids: every value $getNextId returned, in order (history).
\* lastSet: the argument of the latest setPrefix and of the latest showErrorsOn
\*   that returned (history).
\* lastOp: the latest call, its arguments, what it returned or threw, the host
\*   calls it made, and registeredComponents as it was before the call.

----------------------------------------------------------------------------
(* Bounds *)

MaxNameLen == 2
MaxLog == 2
MaxId == 2

----------------------------------------------------------------------------
(* Characters and strings *)

Chars == {"a", "B"}

SeqsUpTo(S, n) == UNION {[1..k -> S] : k \in 0..n}

ExampleNames == {<<"i","n","p","u","t">>, <<"x">>}

Names == SeqsUpTo(Chars, MaxNameLen) \cup ExampleNames

RegNames == {<<"a">>, <<"a", "B">>}

LowerCaseLetters == <<"a","b","c","d","e","f","g","h","i","j","k","l","m",
                      "n","o","p","q","r","s","t","u","v","w","x","y","z">>
UpperCaseLetters == <<"A","B","C","D","E","F","G","H","I","J","K","L","M",
                      "N","O","P","Q","R","S","T","U","V","W","X","Y","Z">>

toUpperCase(c) ==
  IF \E i \in 1..26 : LowerCaseLetters[i] = c
    THEN UpperCaseLetters[CHOOSE i \in 1..26 : LowerCaseLetters[i] = c]
    ELSE c

toLowerCase(c) ==
  IF \E i \in 1..26 : UpperCaseLetters[i] = c
    THEN LowerCaseLetters[CHOOSE i \in 1..26 : UpperCaseLetters[i] = c]
    ELSE c

\* capitalize and lowercase are imported from etc/utils: the first character
\* in upper case and the rest as it is; the name in lower case.
capitalize(str) ==
  IF str = <<>> THEN <<>> ELSE <<toUpperCase(Head(str))>> \o Tail(str)

lowercase(str) == [i \in 1..Len(str) |-> toLowerCase(str[i])]

DEFAULT_PREFIX == <<"f", "m">>
FORM_COMPONENT_NAME == <<"f", "m">>
COMPONENT_CONFIGURATION == "$configuration"
FORM_CONTROLLER == "$formController"

----------------------------------------------------------------------------
(* JavaScript values passed to setPrefix and showErrorsOn *)

Str(s) == [t |-> "string", s |-> s, n |-> 0]
Num(n) == [t |-> "number", s |-> <<>>, n |-> n]
Undefined == [t |-> "undefined", s |-> <<>>, n |-> 0]
Null == [t |-> "null", s |-> <<>>, n |-> 0]
EmptyArray == [t |-> "array", s |-> <<>>, n |-> 0]
\* Object.create(null): an object with neither toString nor valueOf.
BareObject == [t |-> "bareobject", s |-> <<>>, n |-> 0]
NeverSet == [t |-> "never", s |-> <<>>, n |-> 0]

NoErr == "none"
\* What String() throws for a value it cannot convert to a primitive.
TypeError == "TypeError"

DigitChars == <<"0","1","2","3","4","5","6","7","8","9">>

RECURSIVE Digits(_)
Digits(n) == IF n < 0 THEN <<"-">> \o Digits(-n)
             ELSE IF n < 10 THEN <<DigitChars[n + 1]>>
             ELSE Digits(n \div 10) \o <<DigitChars[(n % 10) + 1]>>

\* String(value): the string, or the TypeError it throws.
String(v) ==
  CASE v.t = "string" -> [err |-> NoErr, s |-> v.s]
    [] v.t = "number" -> [err |-> NoErr, s |-> Digits(v.n)]
    [] v.t = "undefined" -> [err |-> NoErr, s |-> <<"u","n","d","e","f","i","n","e","d">>]
    [] v.t = "null" -> [err |-> NoErr, s |-> <<"n","u","l","l">>]
    [] v.t = "array" -> [err |-> NoErr, s |-> <<>>]
    [] v.t = "bareobject" -> [err |-> TypeError, s |-> <<>>]

PrefixInputs == {Str(<<>>), Str(<<"f","o","o">>), Undefined, EmptyArray, BareObject}

FlagInputs == {Str(<<" ","a",","," ","B"," ">>), Null, BareObject}

----------------------------------------------------------------------------
(* Component definition objects and directive factories *)

EmptyMap == [k \in {} |-> <<>>]

Atom(a) == [k |-> "atom", a |-> a, o |-> EmptyMap]
Obj(o) == [k |-> "obj", a |-> <<>>, o |-> o]

ObjectVal(d) == [kind |-> "object", obj |-> d, fn |-> ""]
FunctionVal(f) == [kind |-> "function", obj |-> EmptyMap, fn |-> f]
NoPayload == [kind |-> "none", obj |-> EmptyMap, fn |-> ""]

\* Nested objects (bindings, require): union of the keys, right side wins.
mergeMap(a, b) ==
  [k \in (DOMAIN a) \cup (DOMAIN b) |-> IF k \in DOMAIN b THEN b[k] ELSE a[k]]

mergeDeep(a, b) ==
  [k \in (DOMAIN a) \cup (DOMAIN b) |->
     IF k \in DOMAIN a /\ k \in DOMAIN b
       THEN IF a[k].k = "obj" /\ b[k].k = "obj"
              THEN Obj(mergeMap(a[k].o, b[k].o))
              ELSE b[k]
       ELSE IF k \in DOMAIN b THEN b[k] ELSE a[k]]

\* The literal passed as first argument of mergeDeep in registerControl.
BaseDefinition ==
  ("bindings" :> Obj((COMPONENT_CONFIGURATION :> <<"<","c","o","n","f","i","g">>)
                     @@ ("$ngDisabled" :> <<"<","n","g","D","i","s","a","b","l","e","d">>)))
  @@ ("require" :> Obj(FORM_CONTROLLER :> (<<"^","^">> \o FORM_COMPONENT_NAME)))

DefController == "controller" :> Atom(<<"X">>)

DefBindings ==
  ("controller" :> Atom(<<"X">>))
  @@ ("bindings" :> Obj("value" :> <<"<">>))
  @@ ("require" :> Obj("ngModel" :> <<"n","g","M","o","d","e","l">>))

DefOnlyBindings == "bindings" :> Obj("value" :> <<"<">>)

Definitions == {DefController, DefBindings, DefOnlyBindings}

DirectiveFns == {"F"}

----------------------------------------------------------------------------
(* The host's $compileProvider: it accepts a registration or throws *)

HostErrors == {"E1", "E2"}
HostOutcomes == {"ok"} \cup HostErrors

HostCall(api, name, payload) == [api |-> api, name |-> name, payload |-> payload]

----------------------------------------------------------------------------
(* Arrays live on a heap: registeredComponents is one array for the whole  *)
(* life of the provider; an array handed to a caller is the caller's, and  *)
(* is let go of at the end of the caller's step.                           *)

REG == 0
COPY == 1

Tamper == <<"B">>

\* Variant: the array itself is returned, not a copy.
RClone_alias(h, r) == [ref |-> r, heap |-> h]

\* R.clone(array): a new array with the same elements.
RClone(h, r) == [ref |-> COPY, heap |-> (COPY :> h[r]) @@ h]

\* Variant: return registeredComponents.splice(0), which hands out the
\* elements and empties the provider's array.
getRegisteredComponents_splice(h) ==
  [ref |-> COPY, heap |-> (COPY :> h[REG]) @@ [h EXCEPT ![REG] = <<>>]]

\* return R.clone(registeredComponents)
getRegisteredComponents(h) == RClone(h, REG)

\* What a caller can do to an array it holds.
Mutations(a) ==
  {Append(a, Tamper)}
  \cup (IF a = <<>> THEN {} ELSE {SubSeq(a, 1, Len(a) - 1)})
  \cup {[a EXCEPT ![i] = Tamper] : i \in 1..Len(a)}

\* The caller's arrays are dropped; the provider's stays.
Release(h) == [r \in {REG} |-> h[r]]

----------------------------------------------------------------------------
(* The bodies of the provider's and the service's functions *)

\* Variant: a failed conversion is caught and '' is stored.
setPrefix_swallow(p, newPrefix) ==
  LET c == String(newPrefix) IN [prefix |-> c.s, err |-> NoErr]

\* prefix = String(newPrefix)
\* When String throws, the assignment does not happen and the caller gets the
\* TypeError.
setPrefix(p, newPrefix) ==
  LET c == String(newPrefix) IN
    IF c.err # NoErr THEN [prefix |-> p, err |-> c.err]
                     ELSE [prefix |-> c.s, err |-> NoErr]

\* Variant: the flags are trimmed of surrounding blanks before they are stored.
RECURSIVE TrimLeft(_)
TrimLeft(str) == IF str # <<>> /\ Head(str) = " " THEN TrimLeft(Tail(str)) ELSE str
RECURSIVE TrimRight(_)
TrimRight(str) ==
  IF str # <<>> /\ str[Len(str)] = " " THEN TrimRight(SubSeq(str, 1, Len(str) - 1)) ELSE str
showErrorsOn_trim(flags) ==
  IF flags.t = "string" THEN Str(TrimRight(TrimLeft(flags.s))) ELSE flags

\* showErrorsOnStr = flags
showErrorsOn(flags) == flags

\* Variant: the counter is stepped twice.
getNextId_skip(c) == [counter |-> c + 2, ret |-> c + 2]

\* Variant: return counter++
getNextId_post(c) == [counter |-> c + 1, ret |-> c]

\* return ++counter
getNextId(c) == [counter |-> c + 1, ret |-> c + 1]

\* return showErrorsOnStr
getShowErrorsOnStr(s) == s

\* Variant: the prefix is the one in force when the service was made, not the
\* current one.
getPrefixedName_stale(p, name) == DEFAULT_PREFIX \o capitalize(name)

\* Variant: no fallback to DEFAULT_PREFIX.
getPrefixedName_noFallback(p, name) == p \o capitalize(name)

\* Variant: capitalize is applied to the prefixed name, not to the name.
getPrefixedName_capAll(p, name) == capitalize((IF p # <<>> THEN p ELSE DEFAULT_PREFIX) \o name)

\* `${prefix || DEFAULT_PREFIX}${capitalize(name)}`
getPrefixedName(p, name) == (IF p # <<>> THEN p ELSE DEFAULT_PREFIX) \o capitalize(name)

\* Variant: a name already in the list is not pushed again.
registerComponent_dedup(log, name, definition, out) ==
  [calls |-> <<HostCall("component", lowercase(name), definition)>>,
   log |-> IF out = "ok" /\ \A i \in 1..Len(log) : log[i] # name
             THEN Append(log, name) ELSE log,
   err |-> IF out = "ok" THEN NoErr ELSE out]

\* Variant: the push comes before the host call.
registerComponent_pushFirst(log, name, definition, out) ==
  [calls |-> <<HostCall("component", lowercase(name), definition)>>,
   log |-> Append(log, name),
   err |-> IF out = "ok" THEN NoErr ELSE out]

\* $compileProvider.component(lowercase(name), definition);
\* registeredComponents.push(name);
\* out is what the host does with the call: a throw ends the function there.
registerComponent(log, name, definition, out) ==
  [calls |-> <<HostCall("component", lowercase(name), definition)>>,
   log |-> IF out = "ok" THEN Append(log, name) ELSE log,
   err |-> IF out = "ok" THEN NoErr ELSE out]

\* Variant: the push comes before the host call.
registerDirective_pushFirst(log, name, directiveFn, out) ==
  [calls |-> <<HostCall("directive", lowercase(name), directiveFn)>>,
   log |-> Append(log, name),
   err |-> IF out = "ok" THEN NoErr ELSE out]

\* Variant: the directive goes to $compileProvider.component.
registerDirective_viaComponent(log, name, directiveFn, out) ==
  [calls |-> <<HostCall("component", lowercase(name), directiveFn)>>,
   log |-> IF out = "ok" THEN Append(log, name) ELSE log,
   err |-> IF out = "ok" THEN NoErr ELSE out]

\* Variant: the host's error is caught and another is thrown.
registerDirective_wrap(log, name, directiveFn, out) ==
  [calls |-> <<HostCall("directive", lowercase(name), directiveFn)>>,
   log |-> IF out = "ok" THEN Append(log, name) ELSE log,
   err |-> IF out = "ok" THEN NoErr ELSE "FormationError"]

\* $compileProvider.directive(lowercase(name), directiveFn);
\* registeredComponents.push(name);
registerDirective(log, name, directiveFn, out) ==
  [calls |-> <<HostCall("directive", lowercase(name), directiveFn)>>,
   log |-> IF out = "ok" THEN Append(log, name) ELSE log,
   err |-> IF out = "ok" THEN NoErr ELSE out]

\* Variant: Object.assign({bindings: ..., require: ...}, definition), which
\* takes the caller's bindings and require whole.
registerControl_shallow(log, name, definition, out) ==
  registerComponent(log, name, ObjectVal(mergeMap(BaseDefinition, definition)), out)

\* Variant: the definition is registered without the base definition.
registerControl_noBase(log, name, definition, out) ==
  registerComponent(log, name, ObjectVal(definition), out)

\* $registerComponent(name, mergeDeep({bindings: ..., require: ...}, definition))
registerControl(log, name, definition, out) ==
  registerComponent(log, name, ObjectVal(mergeDeep(BaseDefinition, definition)), out)

\* What the host keeps of the calls it accepted.
HostAccept(h, calls, err) ==
  IF err = NoErr
    THEN h \o [i \in 1..Len(calls) |-> [api |-> calls[i].api, name |-> calls[i].name]]
    ELSE h

----------------------------------------------------------------------------
(* State machine *)

Op(op, name, arg, payload, ret, list, err, calls) ==
  [op |-> op, name |-> name, arg |-> arg, payload |-> payload,
   ret |-> ret, list |-> list, err |-> err, calls |-> calls,
   hostOut |-> "none", before |-> heap[REG]]

Init ==
  /\ prefix = <<>>
  /\ showErrorsOnStr = Undefined
  /\ counter = -1
  /\ heap = [r \in {REG} |-> <<>>]
  /\ host = <<>>
  /\ got = FALSE
  /\ ids = <<>>
  /\ lastSet = [prefix |-> NeverSet, flags |-> NeverSet]
  /\ lastOp = [op |-> "init", name |-> <<>>, arg |-> Undefined, payload |-> NoPayload,
               ret |-> Undefined, list |-> <<>>, err |-> NoErr, calls |-> <<>>,
               hostOut |-> "none", before |-> <<>>]

SetPrefix ==
  \E newPrefix \in PrefixInputs :
    LET r == setPrefix(prefix, newPrefix) IN
      /\ prefix' = r.prefix
      /\ lastSet' = IF r.err = NoErr THEN [lastSet EXCEPT !.prefix = newPrefix] ELSE lastSet
      /\ lastOp' = Op("setPrefix", <<>>, newPrefix, NoPayload, Undefined, <<>>, r.err, <<>>)
    /\ UNCHANGED <<showErrorsOnStr, counter, heap, host, got, ids>>

ShowErrorsOn ==
  \E flags \in FlagInputs :
    /\ showErrorsOnStr' = showErrorsOn(flags)
    /\ lastSet' = [lastSet EXCEPT !.flags = flags]
    /\ lastOp' = Op("showErrorsOn", <<>>, flags, NoPayload, Undefined, <<>>, NoErr, <<>>)
    /\ UNCHANGED <<prefix, counter, heap, host, got, ids>>

GetRegisteredComponents ==
  LET c == getRegisteredComponents(heap) IN
    /\ heap' = Release(c.heap)
    /\ lastOp' = Op("getRegisteredComponents", <<>>, Undefined, NoPayload, Undefined,
                    c.heap[c.ref], NoErr, <<>>)
    /\ UNCHANGED <<prefix, showErrorsOnStr, counter, host, got, ids, lastSet>>

\* A caller takes the list and changes the array it was handed.
MutateReturned ==
  LET c == getRegisteredComponents(heap) IN
    \E b \in Mutations(c.heap[c.ref]) :
      LET h == [c.heap EXCEPT ![c.ref] = b] IN
        /\ heap' = Release(h)
        /\ lastOp' = Op("mutateReturned", <<>>, Undefined, NoPayload, Undefined,
                        h[c.ref], NoErr, <<>>)
        /\ UNCHANGED <<prefix, showErrorsOnStr, counter, host, got, ids, lastSet>>

Get ==
  /\ got' = TRUE
  /\ lastOp' = Op("$get", <<>>, Undefined, NoPayload, Undefined, <<>>, NoErr, <<>>)
  /\ UNCHANGED <<prefix, showErrorsOnStr, counter, heap, host, ids, lastSet>>

GetNextId ==
  /\ got
  /\ Len(ids) < MaxId
  /\ LET r == getNextId(counter) IN
       /\ counter' = r.counter
       /\ ids' = Append(ids, r.ret)
       /\ lastOp' = Op("getNextId", <<>>, Undefined, NoPayload, Num(r.ret), <<>>, NoErr, <<>>)
  /\ UNCHANGED <<prefix, showErrorsOnStr, heap, host, got, lastSet>>

GetShowErrorsOnStr ==
  /\ got
  /\ lastOp' = Op("getShowErrorsOnStr", <<>>, Undefined, NoPayload,
                  getShowErrorsOnStr(showErrorsOnStr), <<>>, NoErr, <<>>)
  /\ UNCHANGED <<prefix, showErrorsOnStr, counter, heap, host, got, ids, lastSet>>

GetPrefixedName ==
  /\ got
  /\ \E name \in Names :
       lastOp' = Op("getPrefixedName", name, Undefined, NoPayload,
                    Str(getPrefixedName(prefix, name)), <<>>, NoErr, <<>>)
  /\ UNCHANGED <<prefix, showErrorsOnStr, counter, heap, host, got, ids, lastSet>>

Registered(op, name, payload, out, r) ==
  /\ heap' = [heap EXCEPT ![REG] = r.log]
  /\ host' = HostAccept(host, r.calls, r.err)
  /\ lastOp' = [Op(op, name, Undefined, payload, Undefined, <<>>, r.err, r.calls)
                  EXCEPT !.hostOut = out]
  /\ UNCHANGED <<prefix, showErrorsOnStr, counter, got, ids, lastSet>>

RegisterComponent ==
  /\ got
  /\ Len(heap[REG]) < MaxLog
  /\ \E name \in RegNames, d \in Definitions, out \in HostOutcomes :
       Registered("registerComponent", name, ObjectVal(d), out,
                  registerComponent(heap[REG], name, ObjectVal(d), out))

RegisterDirective ==
  /\ got
  /\ Len(heap[REG]) < MaxLog
  /\ \E name \in RegNames, f \in DirectiveFns, out \in HostOutcomes :
       Registered("registerDirective", name, FunctionVal(f), out,
                  registerDirective(heap[REG], name, FunctionVal(f), out))

RegisterControl ==
  /\ got
  /\ Len(heap[REG]) < MaxLog
  /\ \E name \in RegNames, d \in Definitions, out \in HostOutcomes :
       Registered("registerControl", name, ObjectVal(d), out,
                  registerControl(heap[REG], name, d, out))

Next ==
  \/ SetPrefix
  \/ ShowErrorsOn
  \/ GetRegisteredComponents
  \/ MutateReturned
  \/ Get
  \/ GetNextId
  \/ GetShowErrorsOnStr
  \/ GetPrefixedName
  \/ RegisterComponent
  \/ RegisterDirective
  \/ RegisterControl

Spec == Init /\ [][Next]_vars

TypeOK ==
  /\ counter \in -1..MaxId
  /\ Len(heap[REG]) <= MaxLog

----------------------------------------------------------------------------
(* Properties *)

log == heap[REG]

RegOps == {"registerComponent", "registerDirective", "registerControl"}

OtherOps == {"setPrefix", "showErrorsOn", "getNextId", "getShowErrorsOnStr",
             "getPrefixedName", "getRegisteredComponents"}

IsPrefix(a, b) == Len(a) <= Len(b) /\ SubSeq(b, 1, Len(a)) = a

\* C1: the k-th call of $getNextId returns k-1, whatever else was called in
\* between, and the counter is the last id given out (it never goes back).
C1_NextIdSequence ==
  /\ \A k \in 1..Len(ids) : ids[k] = k - 1
  /\ counter = Len(ids) - 1
  /\ (lastOp.op = "getNextId" => lastOp.ret = Num(Len(ids) - 1))

\* Two ids were given out with a setPrefix, a showErrorsOn, an accepted and a
\* rejected registration around them.
C1_Witness ==
  /\ lastOp.op = "getNextId"
  /\ Len(ids) >= 2
  /\ lastSet.prefix # NeverSet
  /\ lastSet.flags # NeverSet
  /\ log # <<>>

\* C2: $getPrefixedName(name) is DEFAULT_PREFIX + capitalize(name) when
\* setPrefix was never called or its latest argument coerces to '', and
\* String(p) + capitalize(name) for a latest argument p that coerces to a
\* non-empty string; after setPrefix('foo'), 'input' gives 'fooInput'.
C2_PrefixFallback ==
  lastOp.op = "getPrefixedName" =>
    LET p == lastSet.prefix IN
      /\ (p = NeverSet \/ String(p).s = <<>>)
           => lastOp.ret = Str(DEFAULT_PREFIX \o capitalize(lastOp.name))
      /\ (p # NeverSet /\ String(p).s # <<>>)
           => lastOp.ret = Str(String(p).s \o capitalize(lastOp.name))
      /\ (p = Str(<<"f","o","o">>) /\ lastOp.name = <<"i","n","p","u","t">>)
           => lastOp.ret = Str(<<"f","o","o","I","n","p","u","t">>)
      /\ (p = NeverSet /\ lastOp.name = <<"i","n","p","u","t">>)
           => lastOp.ret = Str(DEFAULT_PREFIX \o <<"I","n","p","u","t">>)

\* A name was prefixed after setPrefix was given a value that is no string and
\* coerces to ''.
C2_Witness ==
  /\ lastOp.op = "getPrefixedName"
  /\ lastSet.prefix = EmptyArray
  /\ lastOp.name = <<"i","n","p","u","t">>

\* C3: $getShowErrorsOnStr() returns undefined as long as showErrorsOn was
\* never called, and afterwards the latest argument of showErrorsOn as passed.
C3_ShowErrorsOnRoundTrip ==
  lastOp.op = "getShowErrorsOnStr" =>
    lastOp.ret = (IF lastSet.flags = NeverSet THEN Undefined ELSE lastSet.flags)

\* Flags with blanks around them were set and read back after other calls.
C3_Witness ==
  /\ lastOp.op = "getShowErrorsOnStr"
  /\ lastSet.flags.t = "string"
  /\ Head(lastSet.flags.s) = " "
  /\ lastOp.ret = lastSet.flags
  /\ log # <<>>
  /\ ids # <<>>

\* C4: every accepted registration appends its name as given, at the end;
\* no call takes anything out of the list or reorders it; and
\* $getRegisteredComponents returns the list's elements in order.
C4_LogAppendOnly ==
  /\ IsPrefix(lastOp.before, log)
  /\ (lastOp.op \in RegOps /\ lastOp.err = NoErr) => log = Append(lastOp.before, lastOp.name)
  /\ Len(log) <= Len(lastOp.before) + 1
  /\ lastOp.op = "getRegisteredComponents" => lastOp.list = log

\* The same mixed-case name was accepted twice and is in the list twice.
C4_Witness ==
  /\ lastOp.op \in RegOps
  /\ lastOp.err = NoErr
  /\ Len(log) = 2
  /\ log[1] = log[2]
  /\ log[2] # lowercase(log[2])

\* C5: what a caller does to a returned list leaves registeredComponents as
\* it was, and the next $getRegisteredComponents returns it so.
C5_DefensiveCopy ==
  /\ lastOp.op = "mutateReturned" => log = lastOp.before
  /\ lastOp.op = "getRegisteredComponents" => (log = lastOp.before /\ lastOp.list = lastOp.before)

\* A caller changed a returned list that was not empty.
C5_Witness ==
  /\ lastOp.op = "mutateReturned"
  /\ log # <<>>
  /\ lastOp.list # log
  /\ Len(lastOp.list) = Len(log)

\* C6: $registerComponent makes one host call, component(lowercase(name),
\* definition); $registerDirective makes one host call,
\* directive(lowercase(name), fn); the name pushed is the name as given.
C6_ForwardToHost ==
  /\ lastOp.op = "registerComponent" =>
       lastOp.calls = <<[api |-> "component", name |-> lowercase(lastOp.name),
                         payload |-> lastOp.payload]>>
  /\ lastOp.op = "registerDirective" =>
       lastOp.calls = <<[api |-> "directive", name |-> lowercase(lastOp.name),
                         payload |-> lastOp.payload]>>
  /\ (lastOp.op \in {"registerComponent", "registerDirective"} /\ lastOp.err = NoErr) =>
       (log # <<>> /\ log[Len(log)] = lastOp.name)

\* A directive with a mixed-case name was accepted after a component.
C6_Witness ==
  /\ lastOp.op = "registerDirective"
  /\ lastOp.err = NoErr
  /\ lastOp.name # lowercase(lastOp.name)
  /\ \E i \in 1..Len(host) : host[i].api = "component"

BaseBindings ==
  (COMPONENT_CONFIGURATION :> <<"<","c","o","n","f","i","g">>)
  @@ ("$ngDisabled" :> <<"<","n","g","D","i","s","a","b","l","e","d">>)

BaseRequire == FORM_CONTROLLER :> (<<"^","^">> \o FORM_COMPONENT_NAME)

NoBindingsNoRequire(d) == "bindings" \notin DOMAIN d /\ "require" \notin DOMAIN d

\* C7: for a definition without bindings and without require, registerControl
\* makes one component registration whose definition has the caller's keys
\* unchanged, bindings with the two base entries and require with the one
\* base entry; when the host accepts, the name is in the list once more.
C7_ControlBaseMerge ==
  (lastOp.op = "registerControl" /\ NoBindingsNoRequire(lastOp.payload.obj)) =>
    /\ Len(lastOp.calls) = 1
    /\ lastOp.calls[1].api = "component"
    /\ lastOp.calls[1].name = lowercase(lastOp.name)
    /\ lastOp.calls[1].payload.kind = "object"
    /\ LET d == lastOp.payload.obj
           m == lastOp.calls[1].payload.obj
       IN /\ DOMAIN m = (DOMAIN d) \cup {"bindings", "require"}
          /\ \A k \in DOMAIN d : m[k] = d[k]
          /\ m["bindings"] = Obj(BaseBindings)
          /\ DOMAIN m["bindings"].o = {COMPONENT_CONFIGURATION, "$ngDisabled"}
          /\ m["require"] = Obj(BaseRequire)
          /\ DOMAIN m["require"].o = {FORM_CONTROLLER}
    /\ lastOp.err = NoErr => log = Append(lastOp.before, lastOp.name)

\* { controller: X } was registered as a control and accepted.
C7_Witness ==
  /\ lastOp.op = "registerControl"
  /\ lastOp.payload.obj = DefController
  /\ lastOp.err = NoErr

\* C8 as stated: after a registration the host rejected, the name has been
\* appended to the list.
C8_LoggedBeforeHostFailure ==
  (lastOp.op \in RegOps /\ lastOp.err # NoErr) => log = Append(lastOp.before, lastOp.name)

\* C8, amended: a registration the host rejected leaves the list as it was;
\* the name is not appended.
C8_RejectedNotLogged ==
  (lastOp.op \in RegOps /\ lastOp.hostOut \in HostErrors) => log = lastOp.before

\* The host rejected a name that is not in the list.
C8_Witness ==
  /\ lastOp.op \in RegOps
  /\ lastOp.hostOut \in HostErrors
  /\ \A i \in 1..Len(log) : log[i] # lastOp.name

EffectivePrefix == IF prefix = <<>> THEN DEFAULT_PREFIX ELSE prefix

\* C10: for a non-empty name, what follows the prefix in
\* $getPrefixedName(name) is the first character in upper case and then the
\* other characters as they are; 'x' gives prefix + 'X', and a name that
\* starts with a capital comes back as it is.
C10_CapitalizeFirstOnly ==
  (lastOp.op = "getPrefixedName" /\ lastOp.name # <<>>) =>
    LET r == lastOp.ret.s
        n == lastOp.name
        pl == Len(EffectivePrefix)
    IN /\ Len(r) = pl + Len(n)
       /\ SubSeq(r, 1, pl) = EffectivePrefix
       /\ r[pl + 1] = toUpperCase(n[1])
       /\ \A i \in 2..Len(n) : r[pl + i] = n[i]
       /\ n = <<"x">> => r = EffectivePrefix \o <<"X">>
       /\ n[1] = "B" => r = EffectivePrefix \o n

\* A name whose first letter is lower case and whose second is upper case.
C10_Witness ==
  /\ lastOp.op = "getPrefixedName"
  /\ lastOp.name = <<"a", "B">>
  /\ lastOp.ret.s = EffectivePrefix \o <<"A", "B">>

\* The entries of a nested object of a definition; none when the key is absent.
Entries(d, key) == IF key \in DOMAIN d /\ d[key].k = "obj" THEN d[key].o ELSE EmptyMap

DisjointFromBase(d) ==
  /\ (DOMAIN Entries(d, "bindings")) \cap (DOMAIN BaseBindings) = {}
  /\ (DOMAIN Entries(d, "require")) \cap (DOMAIN BaseRequire) = {}

\* C11: when the caller's definition has bindings and/or require with keys
\* other than the base keys, the definition forwarded to the host has, under
\* bindings and under require, the base entries and the caller's entries,
\* each with its own value.
C11_ControlMergeUnion ==
  (/\ lastOp.op = "registerControl"
   /\ ~NoBindingsNoRequire(lastOp.payload.obj)
   /\ DisjointFromBase(lastOp.payload.obj)) =>
    /\ Len(lastOp.calls) = 1
    /\ LET d == lastOp.payload.obj
           m == lastOp.calls[1].payload.obj
           cb == Entries(d, "bindings")
           cr == Entries(d, "require")
       IN /\ m["bindings"].k = "obj"
          /\ m["require"].k = "obj"
          /\ DOMAIN m["bindings"].o = (DOMAIN BaseBindings) \cup (DOMAIN cb)
          /\ DOMAIN m["require"].o = (DOMAIN BaseRequire) \cup (DOMAIN cr)
          /\ \A k \in DOMAIN BaseBindings : m["bindings"].o[k] = BaseBindings[k]
          /\ \A k \in DOMAIN cb : m["bindings"].o[k] = cb[k]
          /\ \A k \in DOMAIN BaseRequire : m["require"].o[k] = BaseRequire[k]
          /\ \A k \in DOMAIN cr : m["require"].o[k] = cr[k]
          /\ \A k \in (DOMAIN d) \ {"bindings", "require"} : m[k] = d[k]

\* A control whose definition has a binding and a require entry of its own
\* was registered and accepted.
C11_Witness ==
  /\ lastOp.op = "registerControl"
  /\ lastOp.payload.obj = DefBindings
  /\ lastOp.err = NoErr
  /\ Cardinality(DOMAIN lastOp.calls[1].payload.obj["bindings"].o) = 3
  /\ Cardinality(DOMAIN lastOp.calls[1].payload.obj["require"].o) = 2

\* C12: setPrefix and showErrorsOn take effect whenever they are called, also
\* after $get and after the service was used: $getPrefixedName and
\* $getShowErrorsOnStr read the variables as they are at the call, and a
\* setter leaves the list of registered names and the ids given out alone.
C12_SettersLive ==
  /\ (lastOp.op = "setPrefix" /\ String(lastOp.arg).err = NoErr) =>
       (prefix = String(lastOp.arg).s /\ lastOp.err = NoErr)
  /\ lastOp.op = "setPrefix" => log = lastOp.before
  /\ lastOp.op = "showErrorsOn" =>
       (showErrorsOnStr = lastOp.arg /\ lastOp.err = NoErr /\ log = lastOp.before)
  /\ lastOp.op = "getPrefixedName" =>
       lastOp.ret = Str(EffectivePrefix \o capitalize(lastOp.name))
  /\ lastOp.op = "getShowErrorsOnStr" => lastOp.ret = showErrorsOnStr
  /\ lastSet.prefix # NeverSet => prefix = String(lastSet.prefix).s
  /\ lastSet.flags # NeverSet => showErrorsOnStr = lastSet.flags

\* The prefix was set after $get, after a name was registered and an id was
\* given out.
C12_Witness ==
  /\ lastOp.op = "setPrefix"
  /\ got
  /\ log # <<>>
  /\ ids # <<>>
  /\ prefix = <<"f","o","o">>

ReadOps == {"getShowErrorsOnStr", "getRegisteredComponents", "getPrefixedName"}

\* C13: $getShowErrorsOnStr, $getRegisteredComponents and $getPrefixedName
\* change neither prefix, showErrorsOnStr, counter nor registeredComponents,
\* and the same read made twice in a row returns the same value.
C13_ReadsPure ==
  [][/\ lastOp'.op \in ReadOps =>
          (/\ prefix' = prefix
           /\ showErrorsOnStr' = showErrorsOnStr
           /\ counter' = counter
           /\ heap'[REG] = heap[REG]
           /\ host' = host)
     /\ (/\ lastOp.op \in ReadOps
         /\ lastOp'.op = lastOp.op
         /\ lastOp'.name = lastOp.name) =>
          (lastOp'.ret = lastOp.ret /\ lastOp'.list = lastOp.list)]_vars

\* The list was read when it had two names, and a name was prefixed under a
\* prefix that had been set.
C13_Witness ==
  /\ lastOp.op = "getRegisteredComponents"
  /\ Len(lastOp.list) = 2
  /\ lastOp.list = log
  /\ prefix # <<>>
  /\ showErrorsOnStr # Undefined

\* C14: the list of registered names and the registrations the host accepted
\* go together one to one: as many names as accepted registrations, and the
\* i-th name in lower case is the name of the i-th accepted registration; a
\* name is in the list only when the host call for it returned.
C14_LogMatchesHost ==
  /\ Len(log) = Len(host)
  /\ \A i \in 1..Len(log) : lowercase(log[i]) = host[i].name
  /\ (lastOp.op \in RegOps /\ lastOp.hostOut \in HostErrors) =>
       (log = lastOp.before /\ Len(host) = Len(lastOp.before))
  /\ (lastOp.op \in RegOps /\ lastOp.hostOut = "ok") =>
       (/\ Len(log) = Len(lastOp.before) + 1
        /\ host[Len(host)] = [api |-> lastOp.calls[1].api, name |-> lowercase(lastOp.name)])

\* The host rejected a directive after it had accepted a component with a
\* mixed-case name.
C14_Witness ==
  /\ lastOp.op = "registerDirective"
  /\ lastOp.hostOut \in HostErrors
  /\ Len(log) = 1
  /\ log[1] # lowercase(log[1])
  /\ host[1].api = "component"

WriteFrame(op) ==
  CASE op = "setPrefix" ->
         UNCHANGED <<showErrorsOnStr, counter, heap, host>>
    [] op = "showErrorsOn" ->
         UNCHANGED <<prefix, counter, heap, host>>
    [] op = "getNextId" ->
         counter' = counter + 1 /\ UNCHANGED <<prefix, showErrorsOnStr, heap, host>>
    [] op \in RegOps ->
         UNCHANGED <<prefix, showErrorsOnStr, counter>>
    [] OTHER -> TRUE

\* C15: setPrefix changes only prefix, showErrorsOn only showErrorsOnStr,
\* $getNextId only the counter, by one, and a registration only the list of
\* registered names and the host's registry; a registration the host rejects
\* changes none of prefix, showErrorsOnStr and counter.
C15_WriteFrames == [][WriteFrame(lastOp'.op)]_vars

\* An id was given out with a prefix and flags set and a name registered,
\* all of which are still there.
C15_Witness ==
  /\ lastOp.op = "getNextId"
  /\ counter = 1
  /\ prefix = <<"f","o","o">>
  /\ showErrorsOnStr.t = "string"
  /\ Len(log) = 1
  /\ Len(host) = 1

====
